---- MODULE Spec2Model ----
(***************************************************************************)
(* SocketLogger (src/src/SocketLogger.js): a logging client that queues    *)
(* log messages and posts them over a socket once the `socketlogger`       *)
(* handshake (connect -> connected) has been acknowledged.                 *)
(*                                                                         *)
(* The logger's own state is `status`, `messageQueue` and `params`.  The   *)
(* Socket and Queue classes are imported from typhonjs-core-socket and the *)
(* timer / deferred-event machinery comes from the JavaScript runtime;     *)
(* they are modelled as the environment of the logger (`socket`, `timers`, *)
(* `deferred`, `pushProcesses`).  The remaining variables are history      *)
(* variables: they record what the operations did and never influence the  *)
(* logger.                                                                 *)
(***************************************************************************)
EXTENDS Naturals, Integers, Sequences, FiniteSets

\* ------------------------------------------------------------------ bounds
\* Number of logging calls made over a run (each call carries its own data).
MaxLogs == 2
\* Reconnect timers that may be pending at once.
MaxTimers == 2
\* Deferred notifications that may be waiting for delivery at once.
MaxDeferred == 1
\* The clock advances in steps of s_RECONNECT_INTERVAL \div TicksPerInterval ms.
TicksPerInterval == 1
\* Correlation ids carried by inbound ping messages: 1..MaxPingId.
MaxPingId == 2

\* --------------------------------------------------------------- constants
s_RECONNECT_INTERVAL == 5000

s_STR_EVENT_CONNECTED == "socketlogger:connected"

s_STR_EVENT_DISCONNECTED == "socketlogger:disconnected"

\* The six log levels, one per logging method.
Levels == {"trace", "debug", "info", "warn", "error", "fatal"}

\* Wire messages.  Every message is a record of one shape; a field a message
\* does not carry is "-" (type) or 0 (data, id).
LogMessage(type, data) == [msg |-> "log", type |-> type, data |-> data, id |-> 0]

ConnectMessage == [msg |-> "connect", type |-> "-", data |-> 0, id |-> 0]

PongMessage(id) == [msg |-> "pong", type |-> "-", data |-> 0, id |-> id]

\* Messages the server may deliver: the acknowledgment, a keep alive probe
\* with an id, and a message with a discriminator the logger does not know.
InboundMessages ==
    {[msg |-> "connected", id |-> 0], [msg |-> "nosub", id |-> 0]}
        \cup {[msg |-> "ping", id |-> i] : i \in 1..MaxPingId}

VARIABLES
    status,         \* this.status: "disconnected" | "connected"
    messageQueue,   \* this.messageQueue: the buffered messages, head first
    params,         \* this._params: autoReconnect (autoConnect is read by the constructor only)
    socket,         \* the transport: "closed" | "connecting" | "open" | "closing" (a
                    \* session being closed) | "aborting" (an attempt being given up)
    timers,         \* pending setTimeout callbacks, oldest first
    deferred,       \* notifications handed to triggerDefer, not yet delivered
    pushProcesses,  \* whether Queue.push runs process() after appending
    nextData,       \* history: the number of the next logging call
    last,           \* history: what the most recent operation did
    acked,          \* history: 'connected' received since the last open, no close/disconnect since
    expected,       \* history: logging calls made while disconnected, in call order
    session,        \* history: what was sent since the most recent transport open
    manual,         \* history: disconnect() was called and connect() not since
    attempt         \* history: what started the connection attempt under way, if it has not opened

vars == <<status, messageQueue, params, socket, timers, deferred, pushProcesses,
          nextData, last, acked, expected, session, manual, attempt>>

Min(a, b) == IF a < b THEN a ELSE b

\* What an operation did: its name, the messages it handed to socket.send (in
\* order), the number of socket.connect calls it made, the age in ms of the
\* timer it fired for (-1: no timer), how many messages a queue clear discarded,
\* and, for a close that ended an attempt that never opened, what had started
\* that attempt ("-" otherwise).  `ping` is the id of the inbound ping a
\* socket:message:in callback was given (0: none).
Last(op, out, conn, fired, dropped, failed) ==
    [op |-> op, out |-> out, conn |-> conn, fired |-> fired, dropped |-> dropped,
     failed |-> failed, ping |-> 0]

\* The record of what went out on the current transport session: the kind of
\* the first message sent and the number of handshake messages (2: two or more).
NoteSends(s, out) ==
    [first |-> IF s.first = "none" /\ out # <<>> THEN out[1].msg ELSE s.first,
     handshakes |-> Min(2, s.handshakes
                            + Cardinality({i \in 1..Len(out) : out[i].msg = "connect"}))]

TypeOK ==
    /\ status \in {"disconnected", "connected"}
    /\ params \in [autoReconnect : BOOLEAN]
    /\ socket \in {"closed", "connecting", "open", "closing", "aborting"}
    /\ Len(messageQueue) <= MaxLogs
    /\ Len(timers) <= MaxTimers
    /\ Len(deferred) <= MaxDeferred
    /\ pushProcesses \in BOOLEAN
    /\ nextData \in 1..(MaxLogs + 1)
    /\ acked \in BOOLEAN
    /\ manual \in BOOLEAN
    /\ attempt \in {"none", "constructor", "connect", "timer"}

\* ------------------------------------------------------------- transport
\* A Socket.connect() that starts a new attempt whatever is under way.
SocketConnectAnew(s) == "connecting"

\* Socket.connect(): starts a connection attempt; a no-op while an attempt or
\* a session is under way.
SocketConnect(s) == IF s = "closed" THEN "connecting" ELSE s

\* Socket.disconnect(): starts closing the session, or gives up the attempt,
\* under way; the transport reports the end of it with a socket:close event.
SocketDisconnect(s) ==
    CASE s = "open" -> "closing"
      [] s = "connecting" -> "aborting"
      [] OTHER -> s

\* ----------------------------------------------------------------- queue
\* A consumer that forgets the status test.
consumerAlways(st, message) == [sent |-> TRUE, ack |-> TRUE]

\* A consumer whose else branch returns true as well.
consumerAcksAll(st, message) == [sent |-> st = "connected", ack |-> TRUE]

\* A consumer that sends and then does not return true.
consumerNeverAcks(st, message) == [sent |-> st = "connected", ack |-> FALSE]

\* The consumer given to the Queue: while status is 'connected' it hands the
\* message to socket.send and returns true, otherwise it returns false.
consumer(st, message) == [sent |-> st = "connected", ack |-> st = "connected"]

\* Queue.process(): hands the head of the queue to the consumer and removes
\* it when accepted, until the queue is empty or a message is rejected.
\* The result is the remaining queue and the messages sent, in order.
RECURSIVE QueueProcess(_, _)
QueueProcess(st, q) ==
    IF q = <<>> THEN [queue |-> <<>>, out |-> <<>>]
    ELSE LET c == consumer(st, Head(q))
             sent == IF c.sent THEN <<Head(q)>> ELSE <<>>
         IN  IF c.ack
             THEN LET r == QueueProcess(st, Tail(q))
                  IN  [queue |-> r.queue, out |-> sent \o r.out]
             ELSE [queue |-> q, out |-> sent]

\* Queue.push(element): appends to the tail, then (when the Queue does so)
\* processes the queue.
QueuePush(st, q, element, processes) ==
    IF processes THEN QueueProcess(st, Append(q, element))
    ELSE [queue |-> Append(q, element), out |-> <<>>]

\* Queue.empty(): discards every buffered message.
QueueEmpty(q) == <<>>

\* --------------------------------------------------------------- runtime
\* setTimeout(callback, delay): a new pending timer.
SetTimeout(ts, delay) == Append(ts, [delay |-> delay, elapsed |-> 0])

\* triggerDefer(event): the notification is delivered later.
TriggerDefer(d, event) == Append(d, event)

\* ------------------------------------------------------------------ Init
\* The state after construction: status 'disconnected', an empty queue, and a
\* connection attempt under way when autoConnect is set.
Init ==
    /\ status = "disconnected"
    /\ messageQueue = <<>>
    /\ params \in [autoReconnect : BOOLEAN]
    /\ \E autoConnect \in BOOLEAN :
          /\ socket = IF autoConnect THEN SocketConnect("closed") ELSE "closed"
          /\ last = Last("constructor", <<>>, IF autoConnect THEN 1 ELSE 0, -1, 0, "-")
          /\ attempt = IF autoConnect THEN "constructor" ELSE "none"
    /\ timers = <<>>
    /\ deferred = <<>>
    /\ pushProcesses \in BOOLEAN
    /\ nextData = 1
    /\ acked = FALSE
    /\ expected = <<>>
    /\ session = [first |-> "none", handshakes |-> 0]
    /\ manual = FALSE

\* ------------------------------------------------------- logging methods
\* A logging method that inserts at the head of the queue (unshift for push).
pushAtHead(type) ==
    /\ nextData <= MaxLogs
    /\ LET message == LogMessage(type, nextData)
           r == IF pushProcesses THEN QueueProcess(status, <<message>> \o messageQueue)
                ELSE [queue |-> <<message>> \o messageQueue, out |-> <<>>]
       IN  /\ messageQueue' = r.queue
           /\ last' = Last(type, r.out, 0, -1, 0, "-")
           /\ session' = NoteSends(session, r.out)
           /\ expected' = IF status = "disconnected" THEN Append(expected, message)
                          ELSE expected
    /\ nextData' = nextData + 1
    /\ UNCHANGED <<status, params, socket, timers, deferred, pushProcesses,
                   acked, manual, attempt>>

\* The body shared by trace/debug/info/warn/error/fatal:
\* this.messageQueue.push({ msg: 'log', type, data: arguments }).
push(type) ==
    /\ nextData <= MaxLogs
    /\ LET message == LogMessage(type, nextData)
           r == QueuePush(status, messageQueue, message, pushProcesses)
       IN  /\ messageQueue' = r.queue
           /\ last' = Last(type, r.out, 0, -1, 0, "-")
           /\ session' = NoteSends(session, r.out)
           /\ expected' = IF status = "disconnected" THEN Append(expected, message)
                          ELSE expected
    /\ nextData' = nextData + 1
    /\ UNCHANGED <<status, params, socket, timers, deferred, pushProcesses,
                   acked, manual, attempt>>

trace == push("trace")

debug == push("debug")

info == push("info")

warn == push("warn")

error == push("error")

fatal == push("fatal")

\* ------------------------------------------------------------ public API
\* connect(): this.socket.connect().
connect ==
    /\ socket' = SocketConnect(socket)
    /\ last' = Last("connect", <<>>, 1, -1, 0, "-")
    /\ manual' = FALSE
    /\ attempt' = IF socket = "closed" THEN "connect" ELSE attempt
    /\ UNCHANGED <<status, messageQueue, params, timers, deferred, pushProcesses,
                   nextData, acked, expected, session>>

\* A disconnect() that leaves the buffered messages in the queue.
disconnectKeepsQueue ==
    /\ Len(deferred) < MaxDeferred
    /\ socket' = SocketDisconnect(socket)
    /\ status' = "disconnected"
    /\ deferred' = TriggerDefer(deferred, s_STR_EVENT_DISCONNECTED)
    /\ last' = Last("disconnect", <<>>, 0, -1, 0, "-")
    /\ acked' = FALSE
    /\ manual' = TRUE
    /\ UNCHANGED <<messageQueue, params, timers, pushProcesses, nextData, session,
                   expected, attempt>>

\* disconnect(): forwards to the socket, sets status, empties the queue and
\* defers the 'disconnected' notification.
disconnect ==
    /\ Len(deferred) < MaxDeferred
    /\ socket' = SocketDisconnect(socket)
    /\ status' = "disconnected"
    /\ messageQueue' = QueueEmpty(messageQueue)
    /\ deferred' = TriggerDefer(deferred, s_STR_EVENT_DISCONNECTED)
    /\ last' = Last("disconnect", <<>>, 0, -1, Len(messageQueue), "-")
    /\ acked' = FALSE
    /\ expected' = <<>>
    /\ manual' = TRUE
    /\ UNCHANGED <<params, timers, pushProcesses, nextData, session, attempt>>

\* ------------------------------------------------------ socket callbacks
\* A socket:open callback that pushes the handshake message on the queue.
SocketOpenQueued ==
    /\ socket = "connecting"
    /\ socket' = "open"
    /\ LET r == QueuePush(status, messageQueue, ConnectMessage, pushProcesses)
       IN  /\ messageQueue' = r.queue
           /\ last' = Last("open", r.out, 0, -1, 0, "-")
           /\ session' = NoteSends([first |-> "none", handshakes |-> 0], r.out)
    /\ acked' = FALSE
    /\ attempt' = "none"
    /\ UNCHANGED <<status, params, timers, deferred, pushProcesses,
                   nextData, expected, manual>>

\* A socket:open callback that takes the open transport for a connection.
SocketOpenConnects ==
    /\ socket = "connecting"
    /\ socket' = "open"
    /\ status' = "connected"
    /\ last' = Last("open", <<ConnectMessage>>, 0, -1, 0, "-")
    /\ session' = NoteSends([first |-> "none", handshakes |-> 0], <<ConnectMessage>>)
    /\ acked' = FALSE
    /\ attempt' = "none"
    /\ UNCHANGED <<messageQueue, params, timers, deferred, pushProcesses,
                   nextData, expected, manual>>

\* socket:open -- the transport opened: send the handshake message.
SocketOpen ==
    /\ socket = "connecting"
    /\ socket' = "open"
    /\ last' = Last("open", <<ConnectMessage>>, 0, -1, 0, "-")
    /\ session' = NoteSends([first |-> "none", handshakes |-> 0], <<ConnectMessage>>)
    /\ acked' = FALSE
    /\ attempt' = "none"
    /\ UNCHANGED <<status, messageQueue, params, timers, deferred, pushProcesses,
                   nextData, expected, manual>>

\* A reconnection scheduled with no delay.
ScheduleReconnectNow(ts, autoReconnect) ==
    IF autoReconnect THEN SetTimeout(ts, 0) ELSE ts

\* A socket:close callback that never schedules a reconnection.
ScheduleReconnectNever(ts, autoReconnect) == ts

\* A socket:close callback that does not read the autoReconnect flag.
ScheduleReconnectAlways(ts, autoReconnect) == SetTimeout(ts, s_RECONNECT_INTERVAL)

\* The reconnection scheduled by the socket:close callback.
ScheduleReconnect(ts, autoReconnect) ==
    IF autoReconnect THEN SetTimeout(ts, s_RECONNECT_INTERVAL) ELSE ts

\* socket:close -- the attempt or session ended: set status, empty the queue,
\* defer the 'disconnected' notification and schedule a reconnection.
SocketClose ==
    /\ socket # "closed"
    /\ Len(deferred) < MaxDeferred
    /\ params.autoReconnect => Len(timers) < MaxTimers
    /\ socket' = "closed"
    /\ status' = "disconnected"
    /\ messageQueue' = QueueEmpty(messageQueue)
    /\ deferred' = TriggerDefer(deferred, s_STR_EVENT_DISCONNECTED)
    /\ timers' = ScheduleReconnect(timers, params.autoReconnect)
    /\ last' = Last("close", <<>>, 0, -1, Len(messageQueue),
                 IF attempt = "none" THEN "-" ELSE attempt)
    /\ acked' = FALSE
    /\ expected' = <<>>
    /\ attempt' = "none"
    /\ UNCHANGED <<params, pushProcesses, nextData, session, manual>>

\* A case 'connected' that triggers the notification at once, inside the
\* callback, instead of deferring it.
OnConnectedTriggersNow ==
    /\ Len(deferred) < MaxDeferred
    /\ status' = "connected"
    /\ LET r == QueueProcess(status', messageQueue)
       IN  /\ messageQueue' = r.queue
           /\ last' = Last("connected", r.out, 0, -1, 0, "-")
           /\ session' = NoteSends(session, r.out)
    /\ deferred' = deferred
    /\ acked' = TRUE
    /\ expected' = <<>>
    /\ UNCHANGED <<params, socket, timers, pushProcesses, nextData, manual, attempt>>

\* case 'connected': set status, process the queue, defer the notification.
OnConnected ==
    /\ Len(deferred) < MaxDeferred
    /\ status' = "connected"
    /\ LET r == QueueProcess(status', messageQueue)
       IN  /\ messageQueue' = r.queue
           /\ last' = Last("connected", r.out, 0, -1, 0, "-")
           /\ session' = NoteSends(session, r.out)
    /\ deferred' = TriggerDefer(deferred, s_STR_EVENT_CONNECTED)
    /\ acked' = TRUE
    /\ expected' = <<>>
    /\ UNCHANGED <<params, socket, timers, pushProcesses, nextData, manual, attempt>>

\* A pong that does not echo the id of the ping.
PongWithoutId(message) == PongMessage(0)

\* The reply to a ping: { msg: 'pong', id: message.id }.
PongFor(message) == PongMessage(message.id)

\* case 'ping': send the pong.
OnPing(message) ==
    /\ last' = [Last("ping", <<PongFor(message)>>, 0, -1, 0, "-") EXCEPT !.ping = message.id]
    /\ session' = NoteSends(session, <<PongFor(message)>>)
    /\ UNCHANGED <<status, messageQueue, params, socket, timers, deferred,
                   pushProcesses, nextData, acked, expected, manual, attempt>>

\* A switch whose default clause runs the 'connected' case.
OnOtherAsConnected ==
    /\ Len(deferred) < MaxDeferred
    /\ status' = "connected"
    /\ LET r == QueueProcess(status', messageQueue)
       IN  /\ messageQueue' = r.queue
           /\ last' = Last("ignored", r.out, 0, -1, 0, "-")
           /\ session' = NoteSends(session, r.out)
    /\ deferred' = TriggerDefer(deferred, s_STR_EVENT_CONNECTED)
    /\ UNCHANGED <<params, socket, timers, pushProcesses, nextData, acked, expected,
                   manual, attempt>>

\* Any other discriminator: the switch has no case for it.
OnOther ==
    /\ last' = Last("ignored", <<>>, 0, -1, 0, "-")
    /\ UNCHANGED <<status, messageQueue, params, socket, timers, deferred,
                   pushProcesses, nextData, acked, expected, session, manual, attempt>>

\* socket:message:in -- a message arrived on the session (also while the
\* session is closing: messages already in flight are still delivered).
SocketMessageIn ==
    \E message \in InboundMessages :
        /\ socket \in {"open", "closing"}
        /\ \/ message.msg = "connected" /\ OnConnected
           \/ message.msg = "ping" /\ OnPing(message)
           \/ message.msg \notin {"connected", "ping"} /\ OnOther

\* --------------------------------------------------------------- runtime
\* The reconnect timer fires: socket.connect().  Timers of one delay fire in
\* the order they were set, and never before their delay has elapsed.
ReconnectTimer ==
    /\ timers # <<>>
    /\ Head(timers).elapsed >= Head(timers).delay
    /\ socket' = SocketConnect(socket)
    /\ timers' = Tail(timers)
    /\ last' = Last("timer", <<>>, 1, Head(timers).elapsed, 0, "-")
    /\ attempt' = IF socket = "closed" THEN "timer" ELSE attempt
    /\ UNCHANGED <<status, messageQueue, params, deferred, pushProcesses, nextData,
                   acked, expected, session, manual>>

TickMs == s_RECONNECT_INTERVAL \div TicksPerInterval

\* Time passes while some timer is not yet due.
Tick ==
    /\ \E i \in 1..Len(timers) : timers[i].elapsed < timers[i].delay
    /\ timers' = [i \in 1..Len(timers) |->
                     [timers[i] EXCEPT !.elapsed = Min(timers[i].delay, @ + TickMs)]]
    /\ UNCHANGED <<status, messageQueue, params, socket, deferred, pushProcesses,
                   nextData, last, acked, expected, session, manual, attempt>>

\* A deferred notification is delivered to the listeners.
DeliverDeferred ==
    /\ deferred # <<>>
    /\ deferred' = Tail(deferred)
    /\ UNCHANGED <<status, messageQueue, params, socket, timers, pushProcesses,
                   nextData, last, acked, expected, session, manual, attempt>>

Next ==
    \/ trace
    \/ debug
    \/ info
    \/ warn
    \/ error
    \/ fatal
    \/ connect
    \/ disconnect
    \/ SocketOpen
    \/ SocketClose
    \/ SocketMessageIn
    \/ ReconnectTimer
    \/ Tick
    \/ DeliverDeferred

Spec == Init /\ [][Next]_vars

\* The timer callback and the clock run whenever they can: a pending timer
\* eventually becomes due and then fires.
FairSpec == Spec /\ WF_vars(Tick) /\ WF_vars(ReconnectTimer)

\* ============================================================== properties
HasLog(out) == \E i \in 1..Len(out) : out[i].msg = "log"

\* C1: a log message is handed to the transport's send only when a 'connected'
\* acknowledgment has been received since the most recent transport open, with
\* no transport close and no disconnect() since that acknowledgment.
C1_LogOnlyAfterAck == HasLog(last.out) => acked

\* The flush run by an acknowledgment sent a buffered log message.
C1_Witness == HasLog(last.out) /\ acked /\ last.op = "connected"

\* C2: the flush run by the 'connected' acknowledgment hands the messages of
\* the logging calls made while disconnected (none of them cleared since by a
\* close or a disconnect()) to the transport in the order of the calls, all of
\* them and nothing else.
C2_FlushInCallOrder ==
    [][(status = "disconnected" /\ last'.op = "connected") => last'.out = expected]_vars

\* An acknowledgment flushed two buffered messages.
C2_Witness == last.op = "connected" /\ Len(last.out) >= 2

\* C3: after a disconnect() no reconnect timer issues a transport connect
\* until the caller invokes connect() again.
C3_NoReconnectAfterDisconnect == ~(manual /\ last.op = "timer")

\* C4: right after a socket:close callback and right after a disconnect()
\* call, status is 'disconnected' and the queue is empty.
C4_ClosedMeansEmpty ==
    last.op \in {"close", "disconnect"} => status = "disconnected" /\ messageQueue = <<>>

\* A close found buffered messages and discarded them.
C4_Witness == last.op = "close" /\ last.dropped > 0

\* C5: with autoReconnect set, a socket:close callback sets exactly one timer;
\* a timer issues its one transport connect call when it fires, and it never
\* fires before s_RECONNECT_INTERVAL ms have elapsed since the close.
C5_OneReconnectAfterInterval ==
    /\ [](last.op = "timer" => last.fired >= s_RECONNECT_INTERVAL /\ last.conn = 1)
    /\ [][/\ (socket # "closed" /\ socket' = "closed" /\ params.autoReconnect)
              => (Len(timers') = Len(timers) + 1
                  /\ timers'[Len(timers')] = [delay |-> s_RECONNECT_INTERVAL, elapsed |-> 0])
          /\ Len(timers') > Len(timers) => (socket # "closed" /\ socket' = "closed")
          /\ Len(timers') < Len(timers)
              => (Len(timers') = Len(timers) - 1 /\ last'.op = "timer" /\ last'.conn = 1)
         ]_vars

\* A reconnect timer fired once the interval had elapsed.
C5_Witness ==
    params.autoReconnect /\ last.op = "timer" /\ last.fired = s_RECONNECT_INTERVAL

\* C6: at most one reconnect timer is pending in every reachable state.
C6_AtMostOneTimer == Len(timers) <= 1

\* C7: with autoReconnect set, every socket:close callback is eventually
\* followed by a further transport connect call, also the close of an attempt
\* that a reconnect timer had started.
C7_AlwaysRetries == (params.autoReconnect /\ last.op = "close") ~> (last.conn > 0)

\* A reconnection attempt started by the timer closed without opening.
C7_Witness == params.autoReconnect /\ last.op = "close" /\ last.failed = "timer"

\* C8: with autoReconnect not set, a socket:close callback sets no timer, and
\* only the constructor and connect() issue a transport connect call.
C8_NoReconnectWhenDisabled ==
    ~params.autoReconnect
        => timers = <<>> /\ (last.conn > 0 => last.op \in {"constructor", "connect"})

\* A close with autoReconnect not set.
C8_Witness == ~params.autoReconnect /\ last.op = "close"

\* C9: each socket:open callback sends exactly one { msg: 'connect' }, handed
\* to the transport directly (the queue is untouched and never holds it), and
\* it is the first message sent on that session.
C9_HandshakeFirst ==
    /\ [](/\ last.op = "open" => last.out = <<ConnectMessage>>
          /\ session.first \in {"none", "connect"}
          /\ session.handshakes <= 1
          /\ socket \in {"open", "closing"}
               => session.first = "connect" /\ session.handshakes = 1
          /\ \A i \in 1..Len(messageQueue) : messageQueue[i].msg = "log")
    /\ [][(socket = "connecting" /\ socket' = "open") => messageQueue' = messageQueue]_vars

\* The transport opened while log messages were buffered.
C9_Witness == last.op = "open" /\ messageQueue # <<>>

\* C10: an inbound ping with id X sends exactly one pong with id X and leaves
\* status and the queue as they were.
C10_PingPong ==
    /\ [](last.op = "ping" => last.out = <<PongMessage(last.ping)>>)
    /\ [][last'.op = "ping" => UNCHANGED <<status, messageQueue>>]_vars

\* A ping carrying the largest id was answered while connected.
C10_Witness == last.op = "ping" /\ status = "connected" /\ last.ping = MaxPingId

\* A step that ran the queue's process(): a logging call, or the callback of
\* a 'connected' acknowledgment (the only one that defers a notification
\* without clearing the queue).
IsPushStep == nextData' # nextData

IsAckStep == Len(deferred') > Len(deferred) /\ last'.op = "connected"

\* The queue a process() of this step started from.
FlushInput ==
    IF IsPushStep THEN Append(messageQueue, LogMessage(last'.op, nextData))
    ELSE messageQueue

\* C11: a flush sends a prefix of the queue and keeps the rest: the messages
\* from the first rejected one on stay queued in their order, none of them is
\* sent, and a message leaves the queue only when it was sent.  The predicate
\* rejects exactly while status is 'disconnected'.
C11_FlushStopsAtRejection ==
    [][(IsAckStep \/ (IsPushStep /\ pushProcesses))
          => /\ last'.out \o messageQueue' = FlushInput
             /\ status' = "disconnected" => last'.out = <<>>]_vars

\* A logging call ran process() while disconnected: the head was rejected and
\* both messages stayed queued.
C11_Witness ==
    /\ pushProcesses /\ status = "disconnected" /\ last.op \in Levels
    /\ last.out = <<>> /\ Len(messageQueue) = MaxLogs
    /\ messageQueue[1].data < messageQueue[2].data

\* C12: an inbound message whose msg is neither 'connected' nor 'ping'
\* changes nothing: status, queue, pending timers and pending notifications
\* stay as they were, the transport is not touched and nothing is sent.
C12_UnknownIgnored ==
    [][(last.op # "ignored" /\ last'.op = "ignored")
          => /\ UNCHANGED <<status, messageQueue, timers, deferred, socket, params,
                            session>>
             /\ last'.out = <<>>
             /\ last'.conn = 0]_vars

\* An unknown message arrived while messages were queued and a timer pending.
C12_Witness == last.op = "ignored" /\ messageQueue # <<>> /\ timers # <<>>

\* C13: status is 'disconnected' after construction; it becomes 'connected'
\* only in the callback of a 'connected' acknowledgment and 'disconnected'
\* only in the socket:close callback or in disconnect(); connect(), the
\* socket:open callback, a ping, any other message, the reconnect timer and
\* the logging calls leave it as it is.
C13_StatusTransitions ==
    /\ (last.op = "constructor" => status = "disconnected")
    /\ [][/\ (status = "disconnected" /\ status' = "connected")
               => last'.op = "connected"
          /\ (status = "connected" /\ status' = "disconnected")
               => last'.op \in {"close", "disconnect"}
          /\ last'.op \in {"connect", "open", "ping", "ignored", "timer"} \cup Levels
               => status' = status]_vars

\* connect() was called while connected and status stayed 'connected'.
C13_Witness == status = "connected" /\ last.op = "connect"

\* A step that delivers a pending notification to the listeners.
IsDeliveryStep == Len(deferred') < Len(deferred)

\* A step that hands a notification to triggerDefer.
IsTriggerStep == Len(deferred') > Len(deferred)

\* C14: a notification is delivered in a step of its own, after the step of
\* the transition that produced it: the delivery changes neither status nor
\* queue nor transport; every change of status hands its notification to
\* triggerDefer instead of delivering it; and when a 'connected' notification
\* is handed over status is 'connected' and the whole queue has been flushed,
\* when a 'disconnected' one is handed over status is 'disconnected' and the
\* queue has been cleared.
C14_NotifyAfterTransition ==
    [][/\ IsDeliveryStep
            => /\ deferred' = Tail(deferred)
               /\ UNCHANGED <<status, messageQueue, socket, timers, session, last>>
       /\ status' # status => IsTriggerStep
       /\ IsTriggerStep
            => /\ Len(deferred') = Len(deferred) + 1
               /\ SubSeq(deferred', 1, Len(deferred)) = deferred
               /\ deferred'[Len(deferred')] = s_STR_EVENT_CONNECTED
                    => /\ status' = "connected"
                       /\ messageQueue' = <<>>
                       /\ last'.out = messageQueue
               /\ deferred'[Len(deferred')] = s_STR_EVENT_DISCONNECTED
                    => /\ status' = "disconnected"
                       /\ messageQueue' = <<>>
                       /\ last'.dropped = Len(messageQueue)]_vars

\* A 'connected' notification is pending after a flush that sent log messages.
C14_Witness ==
    /\ deferred = <<s_STR_EVENT_CONNECTED>>
    /\ status = "connected"
    /\ last.op = "connected"
    /\ Len(last.out) = MaxLogs

\* A step of connect() or of the reconnect timer: a transport connect request.
IsConnectRequest ==
    /\ last'.op \in {"connect", "timer"}
    /\ last'.conn = 1
    /\ \/ last' # last
       \/ Len(timers') < Len(timers)
       \/ manual' # manual

\* C15: a transport connect request made by connect() or by a reconnect timer
\* while an attempt is in flight or a session is established (the transport is
\* not closed) leaves the transport, status, the queue, the handshake record
\* of the session and the pending notifications as they are and sends
\* nothing; made while the transport is closed it starts the one attempt.
C15_RedundantConnectHarmless ==
    [][IsConnectRequest
         => /\ socket # "closed"
                => /\ UNCHANGED <<socket, status, messageQueue, session,
                                  acked, deferred, attempt>>
                   /\ last'.out = <<>>
            /\ socket = "closed"
                => /\ socket' = "connecting"
                   /\ UNCHANGED <<status, messageQueue, session, deferred>>]_vars

\* A stale reconnect timer fired while the session was established.
C15_Witness ==
    /\ last.op = "timer"
    /\ status = "connected"
    /\ socket = "open"
    /\ acked
    /\ session.handshakes = 1

\* C16: whenever status is 'connected' the transport is open and the handshake
\* of its session has been acknowledged.  (Refuted: case 'connected' sets the
\* status without looking at the transport, so an acknowledgment that arrives
\* after disconnect(), before the transport reports the close, makes status
\* 'connected' on a closing transport.)
C16_ConnectedMeansOpen == status = "connected" => (socket = "open" /\ acked)

\* The data ids of the messages of a sequence.
Ids(seq) == {seq[i].data : i \in 1..Len(seq)}

IsLog(m) == m.msg = "log"

\* The log messages handed to the transport by a step; a step that changes
\* neither the history record nor the queue nor the message counter is not a
\* call of an operation that sends.
StepSent ==
    IF last' = last /\ messageQueue' = messageQueue /\ nextData' = nextData
    THEN <<>>
    ELSE SelectSeq(last'.out, IsLog)

\* The number of messages a step discards by clearing the queue.
StepDropped ==
    IF last'.op \in {"close", "disconnect"} /\ messageQueue' = <<>>
    THEN Len(messageQueue)
    ELSE 0

\* C17: the queue holds log messages only, each once, each created earlier
\* (ids strictly increasing and below the id of the next message), so a
\* message that has left the queue never returns; and each step takes every
\* message it starts with (the queue and the message a logging call creates)
\* to exactly one of: the queue, the transport (once), the discarded.
C17_SentAtMostOnce ==
    /\ [](\A i \in 1..Len(messageQueue) :
             /\ IsLog(messageQueue[i])
             /\ messageQueue[i].data < nextData
             /\ \A j \in 1..Len(messageQueue) :
                  i < j => messageQueue[i].data < messageQueue[j].data)
    /\ [][/\ Cardinality(Ids(StepSent)) = Len(StepSent)
          /\ Ids(StepSent) \cap Ids(messageQueue') = {}
          /\ Ids(StepSent) \cup Ids(messageQueue') \subseteq Ids(FlushInput)
          /\ Len(FlushInput) = Len(messageQueue') + Len(StepSent) + StepDropped
          /\ StepDropped > 0 => StepSent = <<>>]_vars

\* After a close, the second of two messages is the only one an
\* acknowledgment's flush sends: the first was sent or discarded before.
C17_Witness ==
    /\ last.op = "connected"
    /\ Len(last.out) = 1
    /\ last.out[1].data = MaxLogs
    /\ nextData = MaxLogs + 1
    /\ messageQueue = <<>>
    /\ timers # <<>>

\* C19: one disconnect() call results in exactly one 'disconnected'
\* notification: the transport's close event that ends a session or attempt
\* given up by disconnect() hands over no further notification.  (Refuted:
\* disconnect() defers one notification and the socket:close callback, which
\* does not look at the status, defers a second one.)
C19_OneDisconnectedNotification ==
    [][(socket \in {"closing", "aborting"} /\ socket' = "closed")
         => deferred' = deferred]_vars

====
